---- MODULE Spec2Model ----
(***************************************************************************)
(* Model of list_converged_recordings.py: the page fetcher, the pagination *)
(* driver with its 429 backoff, the CSV writer and the entry point.        *)
(*                                                                         *)
(* Text is modelled as a sequence of tokens (one-character strings, plus   *)
(* whole-word tokens for URLs and rel parameters), JSON values as tagged   *)
(* records, and Python's None / a missing header as an option record.      *)
(***************************************************************************)
EXTENDS Integers, Sequences, FiniteSets, TLC

VARIABLES
    pc,               \* position of the single thread
    HAS_REQUESTS,     \* whether `import requests` succeeded (lines 23-27)
    token,            \* the credential returned by get_token_from_user
    url,              \* list_all_recordings: current request URL
    all_items,        \* list_all_recordings: accumulated items
    consecutive_429,  \* list_all_recordings: consecutive rate-limit counter
    resp,             \* the response the server gave to the last GET
    outcome,          \* what the last fetch_page call returned or raised
    csv_file,         \* content of the output file on disk
    count,            \* value returned by list_all_recordings
    exit_status,      \* process exit status (Running while it runs)
    stdout,           \* lines printed on standard output
    abort,            \* why the run ended early ("none" otherwise)
    pages,            \* history: items lists of the pages accepted so far
    n429,             \* history: 429 responses since the last successful fetch
    sleeps,           \* history: completed sleeps since the last successful fetch
    writes,           \* history: calls of write_recordings_csv
    loop_done,        \* history: the while loop left through `break`
    retried,          \* history: some fetch succeeded after one or more 429s
    stderr,           \* the kinds of message printed on the error stream
    requests,         \* history: GETs issued (kept by the chained-server runs)
    arg,              \* argument of a function applied on its own
    result            \* its result

vars == <<pc, HAS_REQUESTS, token, url, all_items, consecutive_429, resp, outcome,
          csv_file, count, exit_status, stdout, abort, pages, n429, sleeps,
          writes, loop_done, retried, stderr, requests, arg, result>>

(* the argument and the result of a function applied on its own *)
pure == <<arg, result>>

----------------------------------------------------------------------------
(* Program constants *)

MAX_429_RETRIES == 10
RETRY_AFTER_CAP_SECONDS == 300
RETRY_AFTER_DEFAULT_SECONDS == 60

CSV_FIELDNAMES ==
    << "id", "topic", "createTime", "timeRecorded", "ownerId", "ownerEmail", "ownerType",
       "format", "durationSeconds", "sizeBytes", "serviceType", "storageRegion", "status",
       "locationId", "callSessionId" >>

(* The 13 columns read from the item itself and the 2 read from serviceData. *)
TopFields == { CSV_FIELDNAMES[i] : i \in 1..13 }
ServiceDataFields == { CSV_FIELDNAMES[i] : i \in 14..15 }

(* Bounds of the model *)
MaxPages == 3         \* pages accepted in one run
MaxSegments == 3      \* comma-separated segments of a Link header

----------------------------------------------------------------------------
(* Option values: Python's None, or a missing header *)

None == [some |-> FALSE, val |-> <<>>]
Some(v) == [some |-> TRUE, val |-> v]

(* Truthiness of an optional string: None and "" are falsy *)
Truthy(o) == o.some /\ o.val # <<>>

----------------------------------------------------------------------------
(* str.strip() and int(str) *)

Whitespace == {" ", "\t"}
Digits == {"0", "1", "2", "3", "4", "5", "6", "7", "8", "9"}

DigitVal(c) ==
    CASE c = "0" -> 0 [] c = "1" -> 1 [] c = "2" -> 2 [] c = "3" -> 3 [] c = "4" -> 4
      [] c = "5" -> 5 [] c = "6" -> 6 [] c = "7" -> 7 [] c = "8" -> 8 [] c = "9" -> 9

RECURSIVE LStrip(_)
LStrip(s) == IF s # <<>> /\ Head(s) \in Whitespace THEN LStrip(Tail(s)) ELSE s

RECURSIVE RStrip(_)
RStrip(s) ==
    IF s # <<>> /\ s[Len(s)] \in Whitespace THEN RStrip(SubSeq(s, 1, Len(s) - 1)) ELSE s

Strip(s) == RStrip(LStrip(s))

RECURSIVE DigitsValue(_)
DigitsValue(ds) ==
    IF ds = <<>> THEN 0
    ELSE LET front == SubSeq(ds, 1, Len(ds) - 1)
             last == ds[Len(ds)]
         IN  IF last = "_" THEN DigitsValue(front)
             ELSE 10 * DigitsValue(front) + DigitVal(last)

(* A decimal literal as int() accepts it: digits, single underscores between them *)
IsDecimal(b) ==
    /\ b # <<>>
    /\ \A i \in 1..Len(b) : b[i] \in Digits \cup {"_"}
    /\ b[1] \in Digits
    /\ b[Len(b)] \in Digits
    /\ \A i \in 1..(Len(b) - 1) : ~(b[i] = "_" /\ b[i + 1] = "_")

(* int(s): [ok |-> FALSE] stands for ValueError *)
ParseInt(s) ==
    LET t == Strip(s)
        signed == t # <<>> /\ Head(t) \in {"+", "-"}
        b == IF signed THEN Tail(t) ELSE t
    IN  IF IsDecimal(b)
        THEN [ok |-> TRUE,
              val |-> IF signed /\ Head(t) = "-" THEN 0 - DigitsValue(b) ELSE DigitsValue(b)]
        ELSE [ok |-> FALSE, val |-> 0]

Min(a, b) == IF a <= b THEN a ELSE b

----------------------------------------------------------------------------
(* parse_link_header *)

RelNextTokens == {"rel=\"next\"", "rel='next'"}

IndexOf(s, c) ==
    IF \E i \in 1..Len(s) : s[i] = c
    THEN CHOOSE i \in 1..Len(s) : s[i] = c /\ \A j \in 1..(i - 1) : s[j] # c
    ELSE 0

(* link_header.split(",") *)
RECURSIVE SplitComma(_)
SplitComma(s) ==
    LET i == IndexOf(s, ",")
    IN  IF i = 0 THEN <<s>>
        ELSE <<SubSeq(s, 1, i - 1)>> \o SplitComma(SubSeq(s, i + 1, Len(s)))

(* 'rel="next"' in part *)
HasRelNextDoubleQuoted(part) == \E i \in 1..Len(part) : part[i] = "rel=\"next\""

(* 'rel="next"' in part or "rel='next'" in part *)
HasRelNext(part) == \E i \in 1..Len(part) : part[i] \in RelNextTokens

(* re.search(r"<([^>]+)>", part): the leftmost "<" whose first following ">" is
   not adjacent to it; group 1 is what lies between the two *)
UrlMatchAt(part, i) ==
    /\ part[i] = "<"
    /\ \E j \in (i + 2)..Len(part) :
          part[j] = ">" /\ \A k \in (i + 1)..(j - 1) : part[k] # ">"

UrlMatch(part) ==
    IF \E i \in 1..Len(part) : UrlMatchAt(part, i)
    THEN LET i == CHOOSE i \in 1..Len(part) :
                     UrlMatchAt(part, i) /\ \A h \in 1..(i - 1) : ~UrlMatchAt(part, h)
             j == CHOOSE j \in (i + 2)..Len(part) :
                     part[j] = ">" /\ \A k \in (i + 1)..(j - 1) : part[k] # ">"
         IN  Some(SubSeq(part, i + 1, j - 1))
    ELSE None

RECURSIVE FirstNext(_)
FirstNext(parts) ==
    IF parts = <<>> THEN None
    ELSE LET part == Strip(Head(parts))
             match == UrlMatch(part)
         IN  IF HasRelNext(part) /\ match.some
             THEN Some(Strip(match.val))
             ELSE FirstNext(Tail(parts))

parse_link_header(link_header) ==
    IF link_header = <<>> THEN None ELSE FirstNext(SplitComma(link_header))

----------------------------------------------------------------------------
(* JSON values of a Recording Record, _item_to_row and write_recordings_csv *)

Str(s) == [t |-> "str", s |-> s]
Num(s) == [t |-> "num", s |-> s]
Null == [t |-> "null", s |-> ""]

EmptyDict == [k \in {} |-> Str("")]

(* dict.get(key): None for a missing key *)
GetNoDefault(d, k) == IF k \in DOMAIN d THEN d[k] ELSE Null

(* dict.get(key, "") *)
Get(d, k) == IF k \in DOMAIN d THEN d[k] ELSE Str("")

(* item.get("serviceData") or {}: a missing, null or empty serviceData gives {} *)
ServiceData(item) == IF item.sd = "map" THEN item.sdmap ELSE EmptyDict

(* _item_to_row: [ok |-> FALSE] stands for the AttributeError of calling .get on
   an item, or on a truthy serviceData, that is no mapping *)
_item_to_row(item) ==
    IF ~item.isdict \/ item.sd = "scalar"
    THEN [ok |-> FALSE, row |-> EmptyDict]
    ELSE [ok |-> TRUE,
          row |-> [f \in TopFields \cup ServiceDataFields |->
                      IF f \in TopFields THEN Get(item.top, f)
                      ELSE Get(ServiceData(item), f)]]

(* csv: None is written as the empty string, everything else as str(value) *)
CsvCell(v) == IF v.t = "null" THEN "" ELSE v.s

(* DictWriter.writerow: the row's values in CSV_FIELDNAMES order *)
WriteRow(row) == [i \in 1..Len(CSV_FIELDNAMES) |-> CsvCell(row[CSV_FIELDNAMES[i]])]

(* the rows written before the loop of lines 74-75 ends or raises *)
RECURSIVE RowsWritten(_)
RowsWritten(items) ==
    IF items = <<>> THEN <<>>
    ELSE LET r == _item_to_row(Head(items))
         IN  IF r.ok THEN <<WriteRow(r.row)>> \o RowsWritten(Tail(items)) ELSE <<>>

AllRowsOk(items) == \A i \in 1..Len(items) : _item_to_row(items[i]).ok

NoFile == [exists |-> FALSE, header |-> <<>>, rows |-> <<>>]

(* the file without its header row *)
write_recordings_csv_no_header(items, old, can_open) ==
    IF ~can_open
    THEN [raised |-> TRUE, file |-> old]
    ELSE [raised |-> ~AllRowsOk(items),
          file |-> [exists |-> TRUE, header |-> <<>>, rows |-> RowsWritten(items)]]

(* write_recordings_csv: open() either fails and leaves the disk alone, or
   truncates; then the header and the rows up to the first one that raises *)
write_recordings_csv(items, old, can_open) ==
    IF ~can_open
    THEN [raised |-> TRUE, file |-> old]
    ELSE [raised |-> ~AllRowsOk(items),
          file |-> [exists |-> TRUE, header |-> CSV_FIELDNAMES,
                    rows |-> RowsWritten(items)]]

----------------------------------------------------------------------------
(* What a server answers to one GET, and fetch_page *)

(* a connection-level failure: no response at all *)
ConnectionFailure ==
    [connected |-> FALSE, status |-> 0, retry_after |-> None, link |-> <<>>,
     body |-> [json |-> FALSE, dict |-> FALSE, items_kind |-> "absent", items |-> <<>>]]

Response(status, retry_after, link, body) ==
    [connected |-> TRUE, status |-> status, retry_after |-> retry_after, link |-> link,
     body |-> body]

(* bodies: not JSON at all; JSON but no object; an object without `items`; an
   object whose `items` is no list; an object with a list under `items` *)
InvalidJson == [json |-> FALSE, dict |-> FALSE, items_kind |-> "absent", items |-> <<>>]
JsonNoObject == [json |-> TRUE, dict |-> FALSE, items_kind |-> "absent", items |-> <<>>]
JsonNoItems == [json |-> TRUE, dict |-> TRUE, items_kind |-> "absent", items |-> <<>>]
JsonItemsNoList == [json |-> TRUE, dict |-> TRUE, items_kind |-> "other", items |-> <<>>]
JsonItems(list) == [json |-> TRUE, dict |-> TRUE, items_kind |-> "list", items |-> list]

RateLimitError(wait_seconds) ==
    [kind |-> "rate_limit", wait |-> wait_seconds, data |-> InvalidJson, next_url |-> None]
RequestFailed ==
    [kind |-> "error", wait |-> 0, data |-> InvalidJson, next_url |-> None]
Fetched(data, next_url) ==
    [kind |-> "ok", wait |-> 0, data |-> data, next_url |-> next_url]
NoOutcome ==
    [kind |-> "none", wait |-> 0, data |-> InvalidJson, next_url |-> None]

(* the wait without the clamp of lines 123 and 143 *)
WaitSecondsUncapped(retry_after) ==
    LET parsed == ParseInt(retry_after.val)
    IN  IF Truthy(retry_after) /\ parsed.ok THEN parsed.val
        ELSE RETRY_AFTER_DEFAULT_SECONDS

(* lines 118-123 and 138-143: the wait carried by the rate-limit signal *)
WaitSeconds(retry_after) ==
    LET parsed == ParseInt(retry_after.val)
        wait_sec == IF Truthy(retry_after) /\ parsed.ok THEN parsed.val
                    ELSE RETRY_AFTER_DEFAULT_SECONDS
    IN  Min(wait_sec, RETRY_AFTER_CAP_SECONDS)

(* requests' Response.raise_for_status raises for 4xx and 5xx only *)
RaiseForStatus(status) == 400 <= status /\ status < 600

(* urllib's urlopen raises HTTPError for every status outside 2xx *)
UrlopenRaises(status) == ~(200 <= status /\ status < 300)

fetch_page(r, has_requests) ==
    IF ~r.connected THEN RequestFailed
    ELSE IF has_requests
    THEN IF r.status = 429 THEN RateLimitError(WaitSeconds(r.retry_after))
         ELSE IF RaiseForStatus(r.status) THEN RequestFailed
         ELSE IF ~r.body.json THEN RequestFailed
         ELSE Fetched(r.body, parse_link_header(r.link))
    ELSE IF UrlopenRaises(r.status)
         THEN IF r.status = 429 THEN RateLimitError(WaitSeconds(r.retry_after))
              ELSE RequestFailed
         ELSE IF ~r.body.json THEN RequestFailed
         ELSE Fetched(r.body, parse_link_header(r.link))

----------------------------------------------------------------------------
(* The inputs the environment supplies: answers at the prompt, items, headers,
   bodies and responses *)

PromptInputs ==
    { [interrupted |-> TRUE, line |-> <<>>],
      [interrupted |-> FALSE, line |-> <<>>],
      [interrupted |-> FALSE, line |-> <<" ", "\t">>],
      [interrupted |-> FALSE, line |-> <<"t", "k">>],
      [interrupted |-> FALSE, line |-> <<" ", "t", "k", " ">>] }

ItemA ==
    [isdict |-> TRUE,
     top |-> [id |-> Str("r1"), topic |-> Str("call"), durationSeconds |-> Num("42"),
              status |-> Null],
     sd |-> "map",
     sdmap |-> [locationId |-> Str("loc1"), callSessionId |-> Str("cs1")]]
ItemB ==
    [isdict |-> TRUE,
     top |-> [id |-> Str("r2"), extra |-> Str("x")],
     sd |-> "absent",
     sdmap |-> EmptyDict]
(* an element of `items` that is no mapping *)
ItemNoDict == [isdict |-> FALSE, top |-> EmptyDict, sd |-> "absent", sdmap |-> EmptyDict]

ItemLists == { <<>>, <<ItemA>>, <<ItemA, ItemB>>, <<ItemB, ItemA>>, <<ItemB, ItemNoDict>> }

InitialUrl == <<"u0">>

LinkNone == <<>>
LinkNext1 == << "<", "u1", ">", ";", " ", "rel=\"next\"" >>
LinkPrevNext2 ==
    << "<", "u0", ">", ";", " ", "rel=\"prev\"", ",", " ",
       "<", " ", "u2", ">", ";", " ", "rel='next'" >>
LinkBackToStart == << "<", "u0", ">", ";", " ", "rel=\"next\"" >>
LinkPrevOnly == << "<", "u0", ">", ";", " ", "rel=\"prev\"" >>
LinkNoUrl == << "rel=\"next\"" >>
LinkHeaders == { LinkNone, LinkNext1, LinkPrevNext2, LinkBackToStart, LinkPrevOnly, LinkNoUrl }

RetryAfters ==
    { None, Some(<<"5">>), Some(<<"0">>), Some(<<"-", "5">>), Some(<<"3", "0", "1">>),
      Some(<<"a", "b", "c">>) }
AllRetryAfters ==
    RetryAfters \cup
    { Some(<<>>), Some(<<" ">>), Some(<<"3", "0", "0">>), Some(<<" ", "7", " ">>),
      Some(<<"+", "9">>), Some(<<"1", "_", "0">>), Some(<<"5", ".", "5">>),
      Some(<<"6", "1">>) }

Bodies ==
    { InvalidJson, JsonNoObject, JsonNoItems, JsonItemsNoList } \cup
    { JsonItems(l) : l \in ItemLists }

(* statuses that carry no body: the client reads an empty body for them *)
BodylessStatuses == {204, 304}

(* the responses of the pagination runs *)
ServerResponses ==
    {ConnectionFailure}
    \cup { Response(200, None, l, b) : l \in LinkHeaders, b \in Bodies }
    \cup { Response(300, None, l, b) :
             l \in {LinkNone, LinkNext1}, b \in {InvalidJson, JsonItems(<<ItemA>>)} }
    \cup { Response(st, None, LinkNone, InvalidJson) : st \in BodylessStatuses }
    \cup { Response(st, None, LinkNone, b) :
             st \in {404, 500}, b \in {InvalidJson, JsonNoItems} }
    \cup { Response(429, ra, l, JsonNoItems) :
             ra \in RetryAfters, l \in {LinkNone, LinkNext1} }

(* the responses fetch_page is applied to on its own *)
FetchStatuses == {200, 201, 204, 300, 302, 304, 400, 401, 404, 429, 500, 503}
AllResponses ==
    {ConnectionFailure}
    \cup { r \in { Response(st, ra, l, b) :
                     st \in FetchStatuses, ra \in AllRetryAfters,
                     l \in {LinkNone, LinkNext1, LinkPrevOnly},
                     b \in {InvalidJson, JsonNoObject, JsonNoItems, JsonItems(<<ItemA>>)} } :
             r.status \in BodylessStatuses => r.body = InvalidJson }

(* a server whose next-page links form a chain of ChainLength pages: the page
   at ChainUrl(k) links to ChainUrl(k + 1), the last page links nowhere *)
ChainLength == MaxPages

UrlName == <<"u0", "u1", "u2", "u3", "u4", "u5">>

ChainUrl(k) == <<UrlName[k]>>

ChainLink(k) ==
    IF k < ChainLength
    THEN << "<", UrlName[k + 1], ">", ";", " ", "rel=\"next\"" >>
    ELSE LinkNone

(* what the chained server may answer to a GET of page k: no answer, a 500, a
   429 with a positive or a negative Retry-After, or the page, whose body may
   hold an item, no item, or no `items` at all *)
ChainAnswers(k) ==
    {ConnectionFailure, Response(500, None, LinkNone, InvalidJson)}
    \cup { Response(429, ra, ChainLink(k), JsonNoItems) :
             ra \in {Some(<<"5">>), Some(<<"-", "5">>)} }
    \cup { Response(200, None, ChainLink(k), b) :
             b \in {JsonItems(<<ItemA>>), JsonItems(<<>>), JsonNoItems} }

ChainResponses(u) ==
    UNION {ChainAnswers(k) : k \in {h \in 1..ChainLength : ChainUrl(h) = u}}

AllChainResponses == UNION {ChainAnswers(k) : k \in 1..ChainLength}

----------------------------------------------------------------------------
(* The process: main, get_token_from_user, list_all_recordings *)

Running == 0 - 1

Init ==
    /\ pc = "main"
    /\ HAS_REQUESTS \in BOOLEAN
    /\ token = <<>>
    /\ url = <<>>
    /\ all_items = <<>>
    /\ consecutive_429 = 0
    /\ resp = ConnectionFailure
    /\ outcome = NoOutcome
    /\ csv_file = NoFile
    /\ count = 0
    /\ exit_status = Running
    /\ stdout = <<>>
    /\ abort = "none"
    /\ pages = <<>>
    /\ n429 = 0
    /\ sleeps = 0
    /\ writes = 0
    /\ loop_done = FALSE
    /\ retried = FALSE
    /\ stderr = {}
    /\ requests = 0
    /\ arg = <<>>
    /\ result = <<>>

(* what each fatal path prints on the error stream before the process ends *)
Diagnostics(reason) ==
    CASE reason = "no_requests" -> {"Error: This script requires the 'requests' library"}
      [] reason = "prompt_interrupted" -> {"Aborted."}
      [] reason = "empty_token" -> {"Error: Access token is required."}
      [] reason = "rate_limit_cap" -> {"Error: Rate limited; giving up."}
      [] reason = "invalid_items" -> {"Error: API response missing or invalid 'items' array."}
      [] reason = "fetch_failure" -> {"API error / Request error", "Error: <exception>"}
      [] OTHER -> {"Error: <exception>"}

(* a fatal path that ends the process with status 0 *)
ExitStatusZero(status, reason) ==
    /\ pc' = "exit"
    /\ exit_status' = 0
    /\ abort' = reason
    /\ stderr' = stderr \cup Diagnostics(reason)

(* sys.exit(status), or an exception that main turns into sys.exit(1) *)
Exit(status, reason) ==
    /\ pc' = "exit"
    /\ exit_status' = status
    /\ abort' = reason
    /\ stderr' = stderr \cup Diagnostics(reason)

(* main, lines 218-220 *)
Main ==
    /\ pc = "main"
    /\ IF ~HAS_REQUESTS
       THEN Exit(1, "no_requests")
       ELSE pc' = "prompt" /\ UNCHANGED <<exit_status, abort, stderr>>
    /\ UNCHANGED <<HAS_REQUESTS, token, url, all_items, consecutive_429, resp, outcome,
                   csv_file, count, stdout, pages, n429, sleeps, writes, loop_done, retried,
                   requests, pure>>

(* the line taken as typed *)
TokenUnstripped(line) == line

(* line 81: input(...).strip() *)
TokenOf(line) == Strip(line)

(* get_token_from_user *)
GetToken ==
    /\ pc = "prompt"
    /\ \E inp \in PromptInputs :
         IF inp.interrupted
         THEN Exit(1, "prompt_interrupted") /\ UNCHANGED token
         ELSE IF TokenOf(inp.line) = <<>>
         THEN Exit(1, "empty_token") /\ UNCHANGED token
         ELSE /\ token' = TokenOf(inp.line)
              /\ pc' = "list"
              /\ UNCHANGED <<exit_status, abort, stderr>>
    /\ UNCHANGED <<HAS_REQUESTS, url, all_items, consecutive_429, resp, outcome,
                   csv_file, count, stdout, pages, n429, sleeps, writes, loop_done, retried,
                   requests, pure>>

(* list_all_recordings, lines 170-175 *)
StartListing ==
    /\ pc = "list"
    /\ url' = InitialUrl
    /\ all_items' = <<>>
    /\ consecutive_429' = 0
    /\ pc' = "fetch"
    /\ UNCHANGED <<HAS_REQUESTS, token, resp, outcome, csv_file, count, exit_status,
                   stdout, abort, pages, n429, sleeps, writes, loop_done, retried,
                   stderr, requests, pure>>

(* giving up on the 10th 429 instead of the 11th *)
ExceedsRetriesOffByOne(c) == c >= MAX_429_RETRIES

(* giving up on the 12th 429 *)
ExceedsRetriesLate(c) == c > MAX_429_RETRIES + 1

(* line 182 *)
ExceedsRetries(c) == c > MAX_429_RETRIES

(* the counter left as it is by a successful fetch *)
CounterKept(c) == c

(* line 201: consecutive_429 = 0 *)
CounterAfterSuccess(c) == 0

(* no validation of `items` *)
IsListUnchecked(data) == TRUE

(* line 203: isinstance(items, list) *)
IsList(data) == data.items_kind = "list"

(* the new page put in front of the accumulated items *)
ExtendInFront(acc, items) == items \o acc

(* line 206: all_items.extend(items) *)
Extend(acc, items) == acc \o items

(* leaving the loop after every page *)
LastPageAlways(next_url) == TRUE

(* line 208: `if not next_url: break` *)
LastPage(next_url) == ~Truthy(next_url)

(* line 186: time.sleep raises ValueError for a negative length *)
SleepRaises(wait_seconds) == wait_seconds < 0

(* fetch_page on each response of the runs, in each build *)
Outcomes ==
    [h \in BOOLEAN |-> [r \in ServerResponses \cup AllChainResponses |-> fetch_page(r, h)]]

(* the loop issues a request only while the run is at line 179 *)
AtFetch == pc = "fetch" /\ Len(pages) < MaxPages

(* lines 179-187: fetch_page raised RateLimitError *)
FetchRateLimitedOn(answers) ==
    /\ AtFetch
    /\ \E r \in answers :
         LET o == Outcomes[HAS_REQUESTS][r] IN
         /\ o.kind = "rate_limit"
         /\ resp' = r
         /\ outcome' = o
    /\ consecutive_429' = consecutive_429 + 1
    /\ n429' = n429 + 1
    /\ IF ExceedsRetries(consecutive_429')
       THEN Exit(1, "rate_limit_cap")
       ELSE /\ pc' = "sleep"
            /\ stderr' = stderr \cup {"Rate limited (429). Waiting before retry..."}
            /\ UNCHANGED <<exit_status, abort>>
    /\ UNCHANGED <<HAS_REQUESTS, token, url, all_items, csv_file, count, stdout, pages,
                   sleeps, writes, loop_done, retried, pure>>

FetchRateLimited == FetchRateLimitedOn(ServerResponses) /\ UNCHANGED requests

(* line 186-187: time.sleep(e.wait_seconds); continue *)
Sleep ==
    /\ pc = "sleep"
    /\ IF SleepRaises(outcome.wait)
       THEN Exit(1, "sleep_error") /\ UNCHANGED sleeps
       ELSE /\ sleeps' = sleeps + 1
            /\ pc' = "fetch"
            /\ UNCHANGED <<exit_status, abort, stderr>>
    /\ resp' = ConnectionFailure   \* `e`, and the response it holds, are unbound
    /\ outcome' = NoOutcome        \* at the end of the except clause
    /\ UNCHANGED <<HAS_REQUESTS, token, url, all_items, consecutive_429,
                   csv_file, count, stdout, pages, n429, writes, loop_done, retried,
                   requests, pure>>

(* a failed fetch taken for a reason to try again *)
FetchFailedRetried ==
    /\ AtFetch
    /\ \E r \in ServerResponses :
         LET o == Outcomes[HAS_REQUESTS][r] IN
         /\ o.kind = "error"
         /\ resp' = r
         /\ outcome' = o
    /\ pc' = "fetch"
    /\ UNCHANGED <<HAS_REQUESTS, token, url, all_items, consecutive_429, csv_file, count,
                   exit_status, stdout, abort, pages, n429, sleeps, writes, loop_done,
                   retried,
                   stderr, requests, pure>>

(* lines 188-199 and 227-229: any other exception of fetch_page *)
FetchFailedOn(answers) ==
    /\ AtFetch
    /\ \E r \in answers :
         LET o == Outcomes[HAS_REQUESTS][r] IN
         /\ o.kind = "error"
         /\ resp' = r
         /\ outcome' = o
    /\ Exit(1, "fetch_failure")
    /\ UNCHANGED <<HAS_REQUESTS, token, url, all_items, consecutive_429, csv_file, count,
                   stdout, pages, n429, sleeps, writes, loop_done, retried, pure>>

FetchFailed == FetchFailedOn(ServerResponses) /\ UNCHANGED requests

(* lines 201-210: fetch_page returned *)
FetchSucceededOn(answers) ==
    /\ AtFetch
    /\ \E r \in answers :
         LET o == Outcomes[HAS_REQUESTS][r] IN
         /\ o.kind = "ok"
         /\ resp' = r
         /\ outcome' = o
         /\ consecutive_429' = CounterAfterSuccess(consecutive_429)
         /\ n429' = 0
         /\ sleeps' = 0
         /\ retried' = (retried \/ n429 > 0)
         /\ IF ~o.data.dict
            THEN \* data.get raises AttributeError
                 /\ Exit(1, "body_no_object")
                 /\ UNCHANGED <<url, all_items, pages, loop_done>>
            ELSE IF ~IsList(o.data)
            THEN /\ Exit(1, "invalid_items")
                 /\ UNCHANGED <<url, all_items, pages, loop_done>>
            ELSE /\ all_items' = Extend(all_items, o.data.items)
                 /\ pages' = Append(pages, o.data.items)
                 /\ UNCHANGED <<exit_status, abort, stderr>>
                 /\ IF LastPage(o.next_url)
                    THEN pc' = "write" /\ loop_done' = TRUE /\ UNCHANGED url
                    ELSE pc' = "fetch" /\ url' = o.next_url.val /\ UNCHANGED loop_done
    /\ UNCHANGED <<HAS_REQUESTS, token, csv_file, count, stdout, writes, pure>>

FetchSucceeded == FetchSucceededOn(ServerResponses) /\ UNCHANGED requests

(* the file also flushed when the run has aborted *)
AtWriteOrAborted == pc = "write" \/ (pc = "exit" /\ abort # "none" /\ writes = 0)

(* the output file is written from line 212 only *)
AtWrite == pc = "write"

(* lines 212-214: write_recordings_csv, then return len(all_items) *)
WriteCsv ==
    /\ AtWrite
    /\ \E can_open \in BOOLEAN :
         LET w == write_recordings_csv(all_items, csv_file, can_open) IN
         /\ csv_file' = w.file
         /\ IF w.raised
            THEN Exit(1, "write_error") /\ UNCHANGED count
            ELSE /\ count' = Len(all_items)
                 /\ pc' = "returned"
                 /\ stderr' = stderr \cup {"Saved recordings"}
                 /\ UNCHANGED <<exit_status, abort>>
    /\ writes' = writes + 1
    /\ UNCHANGED <<HAS_REQUESTS, token, url, all_items, consecutive_429, resp, outcome,
                   stdout, pages, n429, sleeps, loop_done, retried,
                   requests, pure>>

(* line 231, then the process ends with status 0 *)
PrintCount ==
    /\ pc = "returned"
    /\ stdout' = Append(stdout, count)
    /\ pc' = "exit"
    /\ exit_status' = 0
    /\ UNCHANGED <<HAS_REQUESTS, token, url, all_items, consecutive_429, resp, outcome,
                   csv_file, count, abort, pages, n429, sleeps, writes, loop_done, retried,
                   stderr, requests, pure>>

Next ==
    \/ Main
    \/ GetToken
    \/ StartListing
    \/ FetchRateLimited
    \/ Sleep
    \/ FetchFailed
    \/ FetchSucceeded
    \/ WriteCsv
    \/ PrintCount

Spec == Init /\ [][Next]_vars

----------------------------------------------------------------------------
(* The runs against a server whose pages form a chain; every GET is counted *)

ChainFetchRateLimited ==
    FetchRateLimitedOn(ChainResponses(url)) /\ requests' = requests + 1

ChainFetchFailed ==
    FetchFailedOn(ChainResponses(url)) /\ requests' = requests + 1

ChainFetchSucceeded ==
    FetchSucceededOn(ChainResponses(url)) /\ requests' = requests + 1

NextChain ==
    \/ Main
    \/ GetToken
    \/ StartListing
    \/ ChainFetchRateLimited
    \/ Sleep
    \/ ChainFetchFailed
    \/ ChainFetchSucceeded
    \/ WriteCsv
    \/ PrintCount

(* the process keeps running: the prompt returns, every GET ends within its
   timeout of 60 s, every sleep within 300 s *)
SpecChain == Init /\ [][NextChain]_vars /\ WF_vars(NextChain)

----------------------------------------------------------------------------
(* fetch_page on its own: one call on any response, in either build *)

InitFetch ==
    /\ pc = "fetch_page"
    /\ HAS_REQUESTS \in BOOLEAN
    /\ resp \in AllResponses
    /\ token = <<"t", "k">>
    /\ url = InitialUrl
    /\ all_items = <<>>
    /\ consecutive_429 = 0
    /\ outcome = NoOutcome
    /\ csv_file = NoFile
    /\ count = 0
    /\ exit_status = Running
    /\ stdout = <<>>
    /\ abort = "none"
    /\ pages = <<>>
    /\ n429 = 0
    /\ sleeps = 0
    /\ writes = 0
    /\ loop_done = FALSE
    /\ retried = FALSE
    /\ stderr = {}
    /\ requests = 0
    /\ arg = <<>>
    /\ result = <<>>

FetchPageCall ==
    /\ pc = "fetch_page"
    /\ outcome' = fetch_page(resp, HAS_REQUESTS)
    /\ pc' = "fetch_page_done"
    /\ UNCHANGED <<HAS_REQUESTS, token, url, all_items, consecutive_429, resp, csv_file,
                   count, exit_status, stdout, abort, pages, n429, sleeps, writes,
                   loop_done, retried,
                   stderr, requests, pure>>

NextFetch == FetchPageCall

SpecFetch == InitFetch /\ [][NextFetch]_vars

----------------------------------------------------------------------------
(* _item_to_row on its own: one call on any Recording Record *)

(* no listing is under way *)
NoRun ==
    /\ HAS_REQUESTS = TRUE
    /\ resp = ConnectionFailure
    /\ token = <<>>
    /\ url = <<>>
    /\ all_items = <<>>
    /\ consecutive_429 = 0
    /\ outcome = NoOutcome
    /\ csv_file = NoFile
    /\ count = 0
    /\ exit_status = Running
    /\ stdout = <<>>
    /\ abort = "none"
    /\ pages = <<>>
    /\ n429 = 0
    /\ sleeps = 0
    /\ writes = 0
    /\ loop_done = FALSE
    /\ retried = FALSE
    /\ stderr = {}
    /\ requests = 0

(* the value the API sends under a field: numbers for the two sizes, null for
   status, a string naming the field otherwise *)
FieldValue(f) ==
    IF f \in {"durationSeconds", "sizeBytes"} THEN Num("42")
    ELSE IF f = "status" THEN Null
    ELSE Str(f)

(* a key of the API's item that is no column of the file *)
ExtraKey == "shareToMe"

(* the serviceData of a Recording Record: absent, null, or a mapping with any
   subset of its two fields, possibly with a further key *)
ServiceDataShapes ==
    {[sd |-> "absent", sdmap |-> EmptyDict], [sd |-> "null", sdmap |-> EmptyDict]}
    \cup {[sd |-> "map", sdmap |-> [f \in S |-> FieldValue(f)]] :
              S \in SUBSET ServiceDataFields}
    \cup {[sd |-> "map",
           sdmap |-> [f \in ServiceDataFields \cup {ExtraKey} |-> FieldValue(f)]]}

(* Recording Records: any subset of the 13 top-level fields, with or without
   a further key, and any serviceData shape *)
RecordingRecords ==
    {[isdict |-> TRUE, top |-> [f \in S \cup X |-> FieldValue(f)],
      sd |-> d.sd, sdmap |-> d.sdmap] :
        S \in SUBSET TopFields, X \in {{}, {ExtraKey}}, d \in ServiceDataShapes}

InitRow ==
    /\ pc = "item_to_row"
    /\ NoRun
    /\ arg \in RecordingRecords
    /\ result = <<>>

ItemToRowCall ==
    /\ pc = "item_to_row"
    /\ result' = _item_to_row(arg)
    /\ pc' = "item_to_row_done"
    /\ UNCHANGED <<HAS_REQUESTS, token, url, all_items, consecutive_429, resp, outcome,
                   csv_file, count, exit_status, stdout, abort, pages, n429, sleeps,
                   writes, loop_done, retried, stderr, requests, arg>>

NextRow == ItemToRowCall

SpecRow == InitRow /\ [][NextRow]_vars

----------------------------------------------------------------------------
(* parse_link_header on its own: one call on any header built from segments *)

SegNext1 == << "<", "u1", ">", ";", " ", "rel=\"next\"" >>
SegNext2Spaced == << " ", "<", " ", "u2", " ", ">", ";", "rel='next'", " " >>
SegPrev == << "<", "u0", ">", ";", " ", "rel=\"prev\"" >>
SegNextNoUrl == << " ", "rel=\"next\"" >>
SegNextEmptyUrl == << "<", ">", ";", " ", "rel=\"next\"" >>
SegNextUnclosed == << "<", "u3", ";", " ", "rel='next'" >>
SegBlank == << " " >>
SegUrlOnly == << "<", "u3", ">" >>

Segments ==
    { SegNext1, SegNext2Spaced, SegPrev, SegNextNoUrl, SegNextEmptyUrl, SegNextUnclosed,
      SegBlank, SegUrlOnly }

SegmentLists == UNION {[1..n -> Segments] : n \in 0..MaxSegments}

(* ",".join(segments) *)
RECURSIVE JoinComma(_)
JoinComma(segs) ==
    IF segs = <<>> THEN <<>>
    ELSE IF Len(segs) = 1 THEN segs[1]
    ELSE segs[1] \o <<",">> \o JoinComma(Tail(segs))

InitLink ==
    /\ pc = "parse_link_header"
    /\ NoRun
    /\ arg \in SegmentLists
    /\ result = <<>>

ParseLinkHeaderCall ==
    /\ pc = "parse_link_header"
    /\ result' = parse_link_header(JoinComma(arg))
    /\ pc' = "parse_link_header_done"
    /\ UNCHANGED <<HAS_REQUESTS, token, url, all_items, consecutive_429, resp, outcome,
                   csv_file, count, exit_status, stdout, abort, pages, n429, sleeps,
                   writes, loop_done, retried, stderr, requests, arg>>

NextLink == ParseLinkHeaderCall

SpecLink == InitLink /\ [][NextLink]_vars

----------------------------------------------------------------------------
(* Properties of the pagination runs *)

RECURSIVE Flatten(_)
Flatten(lists) == IF lists = <<>> THEN <<>> ELSE Head(lists) \o Flatten(Tail(lists))

RECURSIVE SumLen(_)
SumLen(lists) == IF lists = <<>> THEN 0 ELSE Len(Head(lists)) + SumLen(Tail(lists))

(* the run ended before the loop reached DONE *)
AbortedInLoop == abort \in {"rate_limit_cap", "fetch_failure", "invalid_items",
                            "body_no_object", "sleep_error"}

(* C1: at every point of a run the accumulated items are the concatenation, in
   fetch order, of the items lists of the pages accepted so far: nothing is
   dropped, duplicated or reordered, and a 429 adds nothing. *)
C1_AccumulatedIsConcatenation == all_items = Flatten(pages)

(* three pages of 2, 2 and 1 items, the first fetched after a 429 retry *)
C1_Witness ==
    /\ Len(pages) = 3
    /\ Len(pages[1]) = 2 /\ Len(pages[2]) = 2 /\ Len(pages[3]) = 1
    /\ pages[1] # pages[2]
    /\ retried
    /\ Len(all_items) = 5

(* C2: the 11th consecutive 429 ends the run with exit status 1, after exactly
   10 sleeps, with the output file never opened; no earlier 429 does, and there
   is never a 12th. *)
C2_EleventhRateLimitAborts ==
    /\ n429 <= MAX_429_RETRIES + 1
    /\ n429 = MAX_429_RETRIES + 1 =>
         /\ pc = "exit" /\ exit_status = 1 /\ abort = "rate_limit_cap"
         /\ sleeps = MAX_429_RETRIES
         /\ writes = 0 /\ csv_file = NoFile
    /\ abort = "rate_limit_cap" => n429 = MAX_429_RETRIES + 1

C2_Witness ==
    n429 = MAX_429_RETRIES + 1 /\ pc = "exit" /\ all_items # <<>>

(* C3: the output file is written at most once and only after the loop ended
   at a successful page without next URL; a run that aborts in the loop never
   calls write_recordings_csv and leaves no file. *)
C3_WriteOnlyAfterDone ==
    /\ writes <= 1
    /\ writes > 0 => loop_done
    /\ csv_file # NoFile => writes = 1
    /\ loop_done => outcome.kind = "ok" /\ ~Truthy(outcome.next_url)
    /\ AbortedInLoop => ~loop_done /\ writes = 0 /\ csv_file = NoFile

(* an abort with items already accumulated *)
C3_Witness ==
    /\ abort \in {"rate_limit_cap", "fetch_failure", "invalid_items"}
    /\ Len(all_items) >= 2
    /\ csv_file = NoFile

(* a fetched body with no list under `items`: an object without the key or
   with another value under it, or a JSON value that is no object at all *)
InvalidItems(o) == o.kind = "ok" /\ (~o.data.dict \/ o.data.items_kind # "list")

(* C4: a fetched response without a list under `items` ends the run at once with
   exit status 1, whatever was accumulated: its items and its next URL are not
   taken, nothing more is requested and no file is written. *)
C4_InvalidItemsAbort ==
    /\ [](InvalidItems(outcome) =>
            /\ pc = "exit" /\ exit_status = 1
            /\ abort = (IF outcome.data.dict THEN "invalid_items" ELSE "body_no_object")
            /\ writes = 0 /\ csv_file = NoFile)
    /\ [][/\ InvalidItems(outcome') =>
               url' = url /\ all_items' = all_items /\ pages' = pages
           /\ ~InvalidItems(outcome)]_vars

(* the abort came with items accumulated and a next URL on offer *)
C4_Witness ==
    /\ InvalidItems(outcome)
    /\ abort = "invalid_items"
    /\ Len(all_items) >= 2
    /\ Truthy(outcome.next_url)
    /\ outcome.next_url.val # url

(* C5: a rate-limit signal below the cap is followed by a sleep and then by a
   request for the same URL; the backoff changes neither the URL nor the
   accumulated items, and the URL changes only to the next URL of a successful
   response. *)
C5_BackoffRetriesSameUrl ==
    [][/\ (outcome'.kind = "rate_limit" /\ pc = "fetch"
             /\ ~(consecutive_429' > MAX_429_RETRIES)) =>
            pc' = "sleep" /\ url' = url /\ all_items' = all_items
       /\ pc = "sleep" =>
            pc' = "fetch" /\ url' = url /\ all_items' = all_items
       /\ (pc = "fetch" /\ url' # url) =>
            /\ outcome'.kind = "ok"
            /\ Truthy(outcome'.next_url)
            /\ url' = outcome'.next_url.val]_vars

(* C6: the counter is the number of 429 responses since the last successful
   fetch (or the start): a success resets it, it is in 0..10 whenever a request
   is issued, the run gives up for rate limiting exactly when it reaches 11, and
   at most 10 sleeps and 11 rate-limited requests lie between two successes. *)
C6_CounterCountsConsecutive ==
    /\ consecutive_429 = n429
    /\ pc = "fetch" => consecutive_429 \in 0..MAX_429_RETRIES
    /\ outcome.kind = "ok" => consecutive_429 = 0
    /\ abort = "rate_limit_cap" <=> consecutive_429 = MAX_429_RETRIES + 1
    /\ sleeps <= MAX_429_RETRIES
    /\ n429 <= MAX_429_RETRIES + 1

(* a 429 after a success that itself came after 429s: the counter is at 1 *)
C6_Witness ==
    /\ retried
    /\ outcome.kind = "rate_limit"
    /\ consecutive_429 = 1
    /\ pc = "sleep"

(* C7: a generic fetch failure is fatal and never retried: the run ends with
   exit status 1, with no further request, no sleep, the counter as it was and
   no output file. *)
C7_FetchFailureIsFatal ==
    /\ [](outcome.kind = "error" =>
            /\ pc = "exit" /\ exit_status = 1 /\ abort = "fetch_failure"
            /\ writes = 0 /\ csv_file = NoFile)
    /\ [][/\ outcome'.kind = "error" =>
               /\ consecutive_429' = consecutive_429
               /\ sleeps' = sleeps
               /\ url' = url /\ all_items' = all_items
           /\ outcome.kind # "error"]_vars

(* an invalid JSON body in a 200 response, after a 429 and with items in hand *)
C7_Witness ==
    /\ outcome.kind = "error"
    /\ resp.connected /\ resp.status = 200 /\ ~resp.body.json
    /\ consecutive_429 >= 1
    /\ sleeps >= 1
    /\ all_items # <<>>
    /\ exit_status = 1

(* C8: when a run succeeds, the returned count is the sum of the lengths of the
   pages' items lists, and the file holds the header row and then, for each
   accumulated item in order, the written form of its _item_to_row image. *)
C8_CountAndFileOnSuccess ==
    (pc = "returned" \/ exit_status = 0) =>
        /\ count = SumLen(pages)
        /\ writes = 1
        /\ csv_file.exists
        /\ csv_file.header = CSV_FIELDNAMES
        /\ Len(csv_file.rows) = count
        /\ \A i \in 1..Len(csv_file.rows) :
              /\ _item_to_row(all_items[i]).ok
              /\ csv_file.rows[i] = WriteRow(_item_to_row(all_items[i]).row)
        /\ exit_status = 0 => stdout = <<count>>

(* pages of 2, 2 and 1 items: 5 rows *)
C8_Witness ==
    /\ exit_status = 0
    /\ Len(pages) = 3
    /\ Len(pages[1]) = 2 /\ Len(pages[2]) = 2 /\ Len(pages[3]) = 1
    /\ count = 5
    /\ Len(csv_file.rows) = 5

----------------------------------------------------------------------------
(* Properties of fetch_page *)

Is2xx(status) == 200 <= status /\ status < 300

(* the wait the page fetcher is to signal for a Retry-After header *)
SignalledWait(retry_after) ==
    IF retry_after.some /\ ParseInt(retry_after.val).ok
    THEN Min(ParseInt(retry_after.val).val, 300)
    ELSE 60

(* C9: for a 429 response fetch_page signals a rate limit whose wait is
   min(v, 300) when Retry-After is present and parses as the integer v, and 60
   when it is absent, empty or no integer; the wait is never above 300. *)
C9_WaitDuration ==
    (pc = "fetch_page_done" /\ resp.connected /\ resp.status = 429) =>
        /\ outcome.kind = "rate_limit"
        /\ outcome.wait = SignalledWait(resp.retry_after)
        /\ outcome.wait <= 300

(* Retry-After: 301 is clamped to 300 *)
C9_Witness ==
    /\ pc = "fetch_page_done"
    /\ resp.connected /\ resp.status = 429
    /\ resp.retry_after = Some(<<"3", "0", "1">>)
    /\ outcome.kind = "rate_limit"
    /\ outcome.wait = 300

(* C10: fetch_page signals a rate limit exactly for status 429, succeeds only
   for a 2xx status with a valid JSON body, and signals a generic failure in
   every other case: any other non-2xx status, a connection failure, a 2xx
   response with an invalid JSON body. *)
C10_ThreeOutcomes ==
    pc = "fetch_page_done" =>
        /\ outcome.kind \in {"rate_limit", "ok", "error"}
        /\ outcome.kind = "rate_limit" <=> (resp.connected /\ resp.status = 429)
        /\ outcome.kind = "ok" =>
              resp.connected /\ Is2xx(resp.status) /\ resp.body.json
        /\ (\/ ~resp.connected
            \/ (~Is2xx(resp.status) /\ resp.status # 429)
            \/ (Is2xx(resp.status) /\ ~resp.body.json)) => outcome.kind = "error"

----------------------------------------------------------------------------
(* Properties of the entry point *)

(* some GET has been issued in this run: its outcome is in hand, or it was a
   429 counted since the last success *)
RequestIssued == outcome.kind # "none" \/ n429 > 0

(* list_all_recordings has been invoked *)
ListingInvoked == pc \in {"list", "fetch", "sleep", "write", "returned"} \/ url # <<>>

(* C11: a run whose credential is empty after trimming, or whose prompt is
   interrupted, ends with exit status 1 before list_all_recordings is invoked
   and never issues a request; every request is made with a non-empty token. *)
C11_NoRequestWithoutToken ==
    /\ abort \in {"prompt_interrupted", "empty_token"} =>
            /\ pc = "exit" /\ exit_status = 1
            /\ token = <<>>
            /\ ~ListingInvoked
            /\ ~RequestIssued
    /\ (RequestIssued \/ ListingInvoked) =>
            /\ token # <<>>
            /\ token[1] \notin Whitespace /\ token[Len(token)] \notin Whitespace
            /\ abort \notin {"prompt_interrupted", "empty_token", "no_requests"}

(* the run ended at the prompt for want of a token *)
C11_Witness ==
    /\ abort = "empty_token"
    /\ pc = "exit" /\ exit_status = 1
    /\ token = <<>> /\ url = <<>>
    /\ ~RequestIssued

(* the abort conditions of a run *)
AbortReasons ==
    {"no_requests", "prompt_interrupted", "empty_token", "rate_limit_cap", "sleep_error",
     "fetch_failure", "body_no_object", "invalid_items", "write_error"}

(* the lines on the error stream that report a fatal condition, as opposed to
   the progress lines of a backoff or of a saved file *)
ErrorLines == UNION {Diagnostics(r) : r \in AbortReasons}

(* write_recordings_csv returned: header and one row per accumulated item *)
FileWritten ==
    /\ writes = 1
    /\ csv_file.exists
    /\ csv_file.header = CSV_FIELDNAMES
    /\ Len(csv_file.rows) = Len(all_items)

(* C12: the process exits 0 with the final count on standard output exactly
   when the pagination loop reached DONE and the output file was written;
   every abort ends the process with status 1, a diagnostic on the error
   stream and nothing on standard output. *)
C12_ExitStatus ==
    /\ exit_status \in {Running, 0, 1}
    /\ (exit_status # Running) <=> (pc = "exit")
    /\ (abort # "none") <=> (exit_status = 1)
    /\ abort \in AbortReasons \cup {"none"}
    /\ pc = "exit" =>
         /\ (exit_status = 0) <=> (loop_done /\ FileWritten)
         /\ (stdout # <<>>) <=> (exit_status = 0)
    /\ exit_status = 0 => stdout = <<Len(all_items)>> /\ stderr \cap ErrorLines = {}
    /\ exit_status = 1 =>
         /\ stdout = <<>>
         /\ Diagnostics(abort) # {}
         /\ Diagnostics(abort) \subseteq stderr \cap ErrorLines

(* a run that reached DONE and still aborted: the file could not be written *)
C12_Witness ==
    /\ pc = "exit" /\ exit_status = 1
    /\ abort = "write_error"
    /\ loop_done /\ ~FileWritten
    /\ stdout = <<>>
    /\ "Error: <exception>" \in stderr

----------------------------------------------------------------------------
(* Properties of _item_to_row *)

(* C13: for every Recording Record _item_to_row succeeds and returns a mapping
   whose keys are exactly the 15 fixed columns; a column holds the source
   value when the field is present and the empty string when the field, or
   the whole serviceData mapping, is absent. *)
C13_RowOfRecord ==
    pc = "item_to_row_done" =>
        /\ result.ok
        /\ DOMAIN result.row = {CSV_FIELDNAMES[i] : i \in 1..Len(CSV_FIELDNAMES)}
        /\ Cardinality(DOMAIN result.row) = 15
        /\ ExtraKey \notin DOMAIN result.row /\ "serviceData" \notin DOMAIN result.row
        /\ \A f \in TopFields :
              result.row[f] = IF f \in DOMAIN arg.top THEN arg.top[f] ELSE Str("")
        /\ \A f \in ServiceDataFields :
              result.row[f] = IF arg.sd = "map" /\ f \in DOMAIN arg.sdmap
                              THEN arg.sdmap[f] ELSE Str("")

(* a record with some fields, a key that is no column, and a serviceData that
   carries callSessionId only *)
C13_Witness ==
    /\ pc = "item_to_row_done"
    /\ DOMAIN arg.top = {"id", "status", "sizeBytes", ExtraKey}
    /\ arg.sd = "map" /\ DOMAIN arg.sdmap = {"callSessionId"}
    /\ result.ok
    /\ result.row["id"] = Str("id") /\ result.row["status"] = Null
    /\ result.row["sizeBytes"] = Num("42")
    /\ result.row["topic"] = Str("") /\ result.row["locationId"] = Str("")
    /\ result.row["callSessionId"] = Str("callSessionId")

----------------------------------------------------------------------------
(* Properties of parse_link_header *)

(* the segments whose rel parameter is next *)
RelNextSegments == {SegNext1, SegNext2Spaced, SegNextNoUrl, SegNextEmptyUrl, SegNextUnclosed}

(* the URL a segment carries between "<" and ">", if it carries one *)
SegmentUrl(seg) ==
    CASE seg = SegNext1 -> Some(<<"u1">>)
      [] seg = SegNext2Spaced -> Some(<<"u2">>)
      [] seg = SegPrev -> Some(<<"u0">>)
      [] seg = SegUrlOnly -> Some(<<"u3">>)
      [] OTHER -> None

(* the first segment of the list that satisfies Q, 0 when there is none *)
FirstSegment(segs, Q(_)) ==
    IF \E k \in 1..Len(segs) : Q(segs[k])
    THEN CHOOSE k \in 1..Len(segs) : Q(segs[k]) /\ \A h \in 1..(k - 1) : ~Q(segs[h])
    ELSE 0

IsRelNext(seg) == seg \in RelNextSegments
IsRelNextWithUrl(seg) == seg \in RelNextSegments /\ SegmentUrl(seg).some

(* C14 as stated: the result is the URL of the first segment whose rel is next,
   later segments are not consulted once a segment has rel next; nothing when
   no segment has rel next. *)
C14_FirstRelNextSegment ==
    pc = "parse_link_header_done" =>
        LET k == FirstSegment(arg, IsRelNext)
        IN  result = IF k = 0 THEN None ELSE SegmentUrl(arg[k])

(* C14, amended: the result is the URL of the first segment that has rel next
   (single or double quotes) and carries a non-empty <...>; segments with rel
   next but no such URL are passed over; nothing when there is no such
   segment, the header being empty included; the call always returns. *)
C14_FirstRelNextSegmentWithUrl ==
    /\ pc = "parse_link_header_done" =>
        /\ result \in {None} \cup {Some(<<u>>) : u \in {"u1", "u2"}}
        /\ LET k == FirstSegment(arg, IsRelNextWithUrl)
           IN  result = IF k = 0 THEN None ELSE SegmentUrl(arg[k])
        /\ (\A i \in 1..Len(arg) : ~IsRelNext(arg[i])) => result = None
        /\ JoinComma(arg) = <<>> => result = None

(* a URL-less rel next segment is passed over, and of the two that follow the
   first one gives the URL *)
C14_Witness ==
    /\ pc = "parse_link_header_done"
    /\ arg = <<SegNextNoUrl, SegNext2Spaced, SegNext1>>
    /\ result = Some(<<"u2">>)

----------------------------------------------------------------------------
(* Properties of the pagination cursor *)

(* C15: pagination ends exactly at the first successful page that carries no
   next URL: a page with a next URL, even one with no items, is followed by a
   request for that URL; a page without one, even one with items, ends the
   loop; the URL changes only to the next URL of the page just accepted. *)
C15_EndsAtFirstPageWithoutNext ==
    /\ [](loop_done =>
            /\ pc \in {"write", "returned", "exit"}
            /\ pages # <<>>
            /\ outcome.kind = "ok" /\ ~Truthy(outcome.next_url))
    /\ []((pc \in {"write", "returned"} \/ exit_status = 0) => loop_done)
    /\ []((pc = "fetch" /\ pages # <<>> /\ n429 = 0) =>
            /\ outcome.kind = "ok" /\ Truthy(outcome.next_url)
            /\ url = outcome.next_url.val)
    /\ []((pc \in {"fetch", "sleep"} /\ pages = <<>>) => url = InitialUrl)
    /\ [][/\ pages' # pages =>
               /\ pc = "fetch" /\ outcome'.kind = "ok"
               /\ pages' = Append(pages, outcome'.data.items)
               /\ IF Truthy(outcome'.next_url)
                  THEN pc' = "fetch" /\ ~loop_done' /\ url' = outcome'.next_url.val
                  ELSE pc' = "write" /\ loop_done' /\ url' = url
          /\ loop_done' # loop_done => pages' # pages
          /\ (url' # url /\ pc # "list") =>
               /\ pages' # pages
               /\ Truthy(outcome'.next_url) /\ url' = outcome'.next_url.val
          /\ loop_done => (pc' \notin {"fetch", "sleep"} /\ pages' = pages /\ url' = url)
         ]_vars

(* an empty first page with a next URL did not end the run; the page that did
   carries items *)
C15_Witness ==
    /\ loop_done
    /\ Len(pages) = 2
    /\ pages[1] = <<>> /\ pages[2] # <<>>
    /\ url # InitialUrl
    /\ ~Truthy(outcome.next_url)

----------------------------------------------------------------------------
(* Properties of the rate-limit wait *)

(* C16: the wait carried by every rate-limit signal lies in 0..300, whatever
   Retry-After the server sends, negative integers included, so that the
   sleep of a backoff below the cap always completes. *)
C16_WaitInRange ==
    (pc = "fetch_page_done" /\ outcome.kind = "rate_limit") =>
        /\ outcome.wait \in 0..RETRY_AFTER_CAP_SECONDS
        /\ ~SleepRaises(outcome.wait)

----------------------------------------------------------------------------
(* Termination against a chained server *)

(* C17: when the next-page links form a chain of P pages, every run ends, in
   DONE or in an abort, whatever the server answers to each GET, and it issues
   at most 11 * P requests: at most 11 per page. *)
C17_ChainTerminates ==
    /\ <>(pc = "exit")
    /\ [](requests <= (MAX_429_RETRIES + 1) * ChainLength)
    /\ [](pc \in {"fetch", "sleep"} =>
            requests <= (MAX_429_RETRIES + 1) * Len(pages) + n429)
    /\ [](n429 <= MAX_429_RETRIES + 1 /\ Len(pages) <= ChainLength)
    /\ []((n429 > 0 /\ pc \in {"fetch", "sleep"}) => Len(pages) < ChainLength)
    /\ [](MAX_429_RETRIES + 1 = 11)

(* the longest run: ten 429s and then the page, for each page of the chain *)
C17_Witness ==
    /\ pc = "exit" /\ exit_status = 0
    /\ Len(pages) = ChainLength
    /\ requests = 11 * ChainLength

====
